---- MODULE Spec2Model ----
(***************************************************************************)
(* CanvasElement (src/components/canvas/canvas-element.tsx): one shape of  *)
(* the whiteboard, its local interaction state (dragging, resizing,        *)
(* editing, hover), the document-level listeners its effect attaches, the  *)
(* requests it sends to the container through onUpdate / onSelect, and     *)
(* what it renders.  CollaborationCursors                                  *)
(* (src/components/canvas/collaboration-cursors.tsx): the markers of the   *)
(* collaborators' cursors.                                                 *)
(***************************************************************************)
EXTENDS Integers, Sequences, FiniteSets, TLC

\* Bounds of the model.
MaxCursors == 9     \* most entries of the cursor list (one more than the palette)
MaxPointer == 1     \* pointer coordinates (clientX, clientY) range over 0..MaxPointer
MaxPos == 1         \* the container keeps an element's x and y within 0..MaxPos
MaxPoints == 3      \* longest pen stroke explored
MaxColumns == 2     \* most columns of a kanban board value
MaxCards == 2       \* most cards of one column

\* Program constants.
DefaultWidth == 100
DefaultHeight == 100
ControlsOffset == 48

ShapeKinds ==
  {"rectangle", "circle", "text", "sticky", "frame", "line", "arrow", "pen", "kanban"}

Pointer == 0..MaxPointer
Pos == 0..MaxPos

\* The points pen strokes are made of.
PointSet ==
  { [x |-> 0, y |-> 0], [x |-> 10, y |-> 0], [x |-> 10, y |-> 10],
    [x |-> 0 - 5, y |-> 10], [x |-> 3, y |-> 0 - 5] }

CardIds == {"c1", "c2"}

VARIABLES
  type, x, y, points, locked, kanbanData, isSelected, hasOnUpdate,
  mounted,
  isDragging, isResizing, dragOffset, isEditing, isHovered,
  listeners,
  updates, selects,
  ev, down,
  view,
  cursors, zoom, markers

props == <<type, x, y, points, locked, kanbanData, isSelected, hasOnUpdate>>
state == <<isDragging, isResizing, dragOffset, isEditing, isHovered>>
element == <<props, mounted, state, listeners, updates, selects, ev, down, view>>
overlay == <<cursors, zoom, markers>>
vars == <<element, overlay>>

----------------------------------------------------------------------------
\* Pure helpers of the render.

\* Math.min(...s) and Math.max(...s) of a non-empty list, left to right.
RECURSIVE MinFrom(_, _, _)
MinFrom(s, i, acc) ==
  IF i > Len(s) THEN acc
  ELSE MinFrom(s, i + 1, IF s[i] < acc THEN s[i] ELSE acc)

MathMin(s) == MinFrom(s, 2, s[1])

RECURSIVE MaxFrom(_, _, _)
MaxFrom(s, i, acc) ==
  IF i > Len(s) THEN acc
  ELSE MaxFrom(s, i + 1, IF s[i] > acc THEN s[i] ELSE acc)

MathMax(s) == MaxFrom(s, 2, s[1])

\* points.map(p => p.x), points.map(p => p.y)
MapX(pts) == [i \in 1..Len(pts) |-> pts[i].x]
MapY(pts) == [i \in 1..Len(pts) |-> pts[i].y]

\* The box with minY taken over the x coordinates.
PenBox_CopiedAxis(pts) ==
  [minX |-> MathMin(MapX(pts)), minY |-> MathMin(MapX(pts)),
   maxX |-> MathMax(MapX(pts)), maxY |-> MathMax(MapY(pts))]

PenBox(pts) ==
  [minX |-> MathMin(MapX(pts)), minY |-> MathMin(MapY(pts)),
   maxX |-> MathMax(MapX(pts)), maxY |-> MathMax(MapY(pts))]

\* The coordinates of the d attribute, M p1 L p2 L ...:
\* points.map(p => `${p.x - minX},${p.y - minY}`)
PenPath(pts, minX, minY) ==
  [i \in 1..Len(pts) |-> [x |-> pts[i].x - minX, y |-> pts[i].y - minY]]

\* A count of the columns instead of their cards.
TaskCount_CountsColumns(columns) == Len(columns)

\* kanbanData.columns.reduce((total, col) => total + col.cards.length, 0)
RECURSIVE TaskCount(_)
TaskCount(columns) ==
  IF columns = <<>> THEN 0
  ELSE TaskCount(SubSeq(columns, 1, Len(columns) - 1))
         + Len(columns[Len(columns)].cards)

\* {!locked && <span>{count} tasks</span>}
KanbanBadge(lk, columns) == IF lk THEN <<>> ELSE <<TaskCount(columns)>>

\* {isSelected && !locked && (resize handles)}, for the kinds that draw them.
HandleKinds == {"frame", "rectangle", "circle", "sticky", "kanban"}
ResizeHandles(t, sel, lk) == t \in HandleKinds /\ sel /\ ~lk

\* {isEditing ? <textarea/> : <div/>} of the text and sticky kinds.
EditKinds == {"text", "sticky"}
Textarea(t, editing) == t \in EditKinds /\ editing

NoShape == <<>>

Shape(left, top, w, h, t, sel, lk, editing, badge, path) ==
  << [left |-> left, top |-> top, width |-> w, height |-> h,
      handles |-> ResizeHandles(t, sel, lk),
      textarea |-> Textarea(t, editing),
      badge |-> badge, path |-> path] >>

renderKanbanBoard(xx, yy, sel, lk, kd) ==
  IF kd = <<>> THEN NoShape
  ELSE Shape(xx, yy, DefaultWidth, DefaultHeight, "kanban", sel, lk, FALSE,
             KanbanBadge(lk, kd[1]), <<>>)

renderElement(t, xx, yy, pts, sel, lk, kd, editing) ==
  IF t = "kanban" THEN renderKanbanBoard(xx, yy, sel, lk, kd)
  ELSE IF t = "pen" THEN
    IF Len(pts) < 2 THEN NoShape
    ELSE LET b == PenBox(pts)
         IN  Shape(b.minX, b.minY, b.maxX - b.minX, b.maxY - b.minY, t, sel, lk,
                   editing, <<>>, PenPath(pts, b.minX, b.minY))
  ELSE IF t = "text" THEN
    Shape(xx, yy, "auto", "auto", t, sel, lk, editing, <<>>, <<>>)
  ELSE Shape(xx, yy, DefaultWidth, DefaultHeight, t, sel, lk, editing, <<>>, <<>>)

\* {(isSelected || isHovered) && type !== 'kanban' && (lock button)}
ElementControls(t, xx, yy, sel, hov, lk) ==
  IF (sel \/ hov) /\ t # "kanban"
  THEN << [left |-> xx, top |-> yy - ControlsOffset,
           title |-> IF lk THEN "Unlock" ELSE "Lock"] >>
  ELSE <<>>

Unmounted == [shape |-> NoShape, controls |-> <<>>]

CanvasElement(m, t, xx, yy, pts, sel, lk, kd, editing, hov) ==
  IF ~m THEN Unmounted
  ELSE [shape |-> renderElement(t, xx, yy, pts, sel, lk, kd, editing),
        controls |-> ElementControls(t, xx, yy, sel, hov, lk)]

Rendered ==
  CanvasElement(mounted, type, x, y, points, isSelected, locked, kanbanData,
                isEditing, isHovered)

----------------------------------------------------------------------------
\* The effect that attaches the document listeners.

\* What the handleMouseMove of one render closes over.
Closure(drag, off, lk, upd) ==
  [isDragging |-> drag, dragOffset |-> off, locked |-> lk, onUpdate |-> upd]

\* The dependency list with locked added to it.
DepsChanged_WithLocked(drag, drag2, resize, resize2, newOffset, lk, lk2) ==
  drag # drag2 \/ resize # resize2 \/ newOffset \/ lk # lk2

\* The dependency list [isDragging, isResizing, dragOffset]: newOffset says
\* that setDragOffset stored a new object.
DepsChanged(drag, drag2, resize, resize2, newOffset, lk, lk2) ==
  drag # drag2 \/ resize # resize2 \/ newOffset

\* useEffect: when a dependency changed, the previous cleanup detaches the
\* listeners and the effect attaches those of the current render.
useEffect(changed, drag, resize, off, lk, upd, ls) ==
  IF ~changed THEN ls
  ELSE IF drag \/ resize THEN {Closure(drag, off, lk, upd)} ELSE {}

\* An effect that returns no cleanup leaves its listeners attached.
UnmountCleanup_None(ls) == ls

\* The cleanup React runs when the component unmounts.
UnmountCleanup(ls) == {}

InitialOffset == [x |-> 0, y |-> 0]

NoEvent == [name |-> "none", target |-> "none", px |-> 0, py |-> 0]
\* down: where the pointer was, relative to the element's (x, y), at the
\* pointer-down that started the drag in progress, (px - x0, py - y0), and
\* whether the container has moved the element since.
NoDown == [dx |-> 0, dy |-> 0, moved |-> FALSE]

Event(n, tgt, px, py) == [name |-> n, target |-> tgt, px |-> px, py |-> py]

\* The effect after the render that follows a handler.
Effect(newOffset) ==
  listeners' =
    useEffect(DepsChanged(isDragging, isDragging', isResizing, isResizing',
                          newOffset, locked, locked'),
              isDragging', isResizing', dragOffset', locked', hasOnUpdate',
              listeners)

\* onUpdate?.(id, payload)
onUpdate(payload) == IF hasOnUpdate THEN <<payload>> ELSE <<>>

----------------------------------------------------------------------------
\* Event handlers.

ShapeShown == view.shape # NoShape

MouseDownTargets ==
  {"shape"}
    \cup (IF view.shape[1].handles THEN {"handle"} ELSE {})
    \cup (IF view.shape[1].textarea THEN {"textarea"} ELSE {})

\* handleMouseDown without its first line, if (locked) return.
handleMouseDown_NoLockCheck(px, py) ==
  [isDragging |-> TRUE, dragOffset |-> [x |-> px - x, y |-> py - y],
   newOffset |-> TRUE, selects |-> 1]

\* What handleMouseDown leaves: the dragging flag, the drag offset, whether
\* setDragOffset ran, and the number of onSelect calls.
handleMouseDown(px, py) ==
  IF locked
  THEN [isDragging |-> isDragging, dragOffset |-> dragOffset,
        newOffset |-> FALSE, selects |-> 0]
  ELSE [isDragging |-> TRUE, dragOffset |-> [x |-> px - x, y |-> py - y],
        newOffset |-> TRUE, selects |-> 1]

\* onMouseDown of the shape; a press on a resize handle or inside the textarea
\* bubbles to it.
MouseDown(px, py, tgt) ==
  /\ ShapeShown
  /\ UNCHANGED <<props, mounted, isResizing, isEditing, isHovered>>
  /\ updates' = <<>>
  /\ ev' = Event("mousedown", tgt, 0, 0)
  /\ UNCHANGED overlay
  /\ down' = IF locked THEN down
             ELSE [dx |-> px - x, dy |-> py - y, moved |-> FALSE]
  /\ LET h == handleMouseDown(px, py)
     IN  /\ isDragging' = h.isDragging
         /\ dragOffset' = h.dragOffset
         /\ selects' = h.selects
         /\ Effect(h.newOffset)
  /\ view' = Rendered

DoubleClickKinds == {"frame", "text", "sticky"}

\* The editing flag handleDoubleClick leaves.
handleDoubleClick ==
  IF locked THEN isEditing
  ELSE IF type = "text" \/ type = "sticky" THEN TRUE
  ELSE isEditing

\* What is rendered once the editing flag is e.
RenderEditing(e) ==
  CanvasElement(mounted, type, x, y, points, isSelected, locked, kanbanData,
                e, isHovered)

\* onDoubleClick of the frame, text and sticky shapes
DoubleClick ==
  /\ ShapeShown
  /\ type \in DoubleClickKinds
  /\ UNCHANGED <<props, mounted, isDragging, isResizing, dragOffset, isHovered, down>>
  /\ updates' = <<>>
  /\ selects' = 0
  /\ ev' = Event("dblclick", "shape", 0, 0)
  /\ UNCHANGED overlay
  /\ isEditing' = handleDoubleClick
  /\ Effect(FALSE)
  /\ view' = RenderEditing(handleDoubleClick)

\* onClick={() => !locked && setIsEditing(true)} of the sticky content: the
\* editing flag it leaves.
StickyContentClick == IF ~locked THEN TRUE ELSE isEditing

\* The content div is there while the sticky is not being edited.
Click ==
  /\ ShapeShown
  /\ type = "sticky"
  /\ ~view.shape[1].textarea
  /\ UNCHANGED <<props, mounted, isDragging, isResizing, dragOffset, isHovered, down>>
  /\ updates' = <<>>
  /\ selects' = 0
  /\ ev' = Event("click", "content", 0, 0)
  /\ UNCHANGED overlay
  /\ isEditing' = StickyContentClick
  /\ Effect(FALSE)
  /\ view' = RenderEditing(StickyContentClick)

\* The requested position with the y line copied from the x line.
DragPosition_CopiedAxis(c, px, py) ==
  [x |-> px - c.dragOffset.x, y |-> py - c.dragOffset.x]

\* The position handleMouseMove requests.
DragPosition(c, px, py) ==
  [x |-> px - c.dragOffset.x, y |-> py - c.dragOffset.y]

\* handleMouseMove as attached: isDragging, dragOffset, locked and onUpdate are
\* those of the render the effect ran in.
handleMouseMove(c, px, py) ==
  IF c.isDragging /\ c.onUpdate /\ ~c.locked
  THEN <<DragPosition(c, px, py)>>
  ELSE <<>>

\* mousemove on the document
MouseMove(px, py) ==
  /\ listeners # {}
  /\ UNCHANGED <<props, mounted, state, listeners, down, view>>
  /\ selects' = 0
  /\ ev' = Event("mousemove", "document", px, py)
  /\ UNCHANGED overlay
  /\ updates' = handleMouseMove(CHOOSE c \in listeners : TRUE, px, py)

\* The dragging and resizing flags handleMouseUp leaves.
handleMouseUp == [isDragging |-> FALSE, isResizing |-> FALSE]

\* mouseup on the document
MouseUp ==
  /\ listeners # {}
  /\ UNCHANGED <<props, mounted, dragOffset, isEditing, isHovered>>
  /\ updates' = <<>>
  /\ selects' = 0
  /\ ev' = Event("mouseup", "document", 0, 0)
  /\ UNCHANGED overlay
  /\ down' = NoDown
  /\ isDragging' = (mounted /\ handleMouseUp.isDragging)
  /\ isResizing' = (mounted /\ handleMouseUp.isResizing)
  /\ Effect(FALSE)
  /\ view' = Rendered

\* onBlur={() => setIsEditing(false)} of the textarea
Blur ==
  /\ ShapeShown
  /\ view.shape[1].textarea
  /\ UNCHANGED <<props, mounted, isDragging, isResizing, dragOffset, isHovered, down>>
  /\ updates' = <<>>
  /\ selects' = 0
  /\ ev' = Event("blur", "textarea", 0, 0)
  /\ UNCHANGED overlay
  /\ isEditing' = FALSE
  /\ Effect(FALSE)
  /\ view' = RenderEditing(FALSE)

Keys == {"Escape", "Enter"}

\* onKeyDown of the textarea: the editing flag it leaves.
handleKeyDown(key) == IF key = "Escape" THEN FALSE ELSE isEditing

KeyDown(key) ==
  /\ ShapeShown
  /\ view.shape[1].textarea
  /\ UNCHANGED <<props, mounted, isDragging, isResizing, dragOffset, isHovered, down>>
  /\ updates' = <<>>
  /\ selects' = 0
  /\ ev' = Event("keydown", key, 0, 0)
  /\ UNCHANGED overlay
  /\ isEditing' = handleKeyDown(key)
  /\ Effect(FALSE)
  /\ view' = RenderEditing(handleKeyDown(key))

\* What is rendered once the hover flag is h.
RenderHovered(h) ==
  CanvasElement(mounted, type, x, y, points, isSelected, locked, kanbanData,
                isEditing, h)

\* onMouseEnter={() => setIsHovered(true)}
MouseEnter ==
  /\ ShapeShown
  /\ ~isHovered
  /\ UNCHANGED <<props, mounted, isDragging, isResizing, dragOffset, isEditing, down>>
  /\ updates' = <<>>
  /\ selects' = 0
  /\ ev' = Event("mouseenter", "shape", 0, 0)
  /\ UNCHANGED overlay
  /\ isHovered' = TRUE
  /\ Effect(FALSE)
  /\ view' = RenderHovered(TRUE)

\* onMouseLeave={() => setIsHovered(false)}
MouseLeave ==
  /\ ShapeShown
  /\ isHovered
  /\ UNCHANGED <<props, mounted, isDragging, isResizing, dragOffset, isEditing, down>>
  /\ updates' = <<>>
  /\ selects' = 0
  /\ ev' = Event("mouseleave", "shape", 0, 0)
  /\ UNCHANGED overlay
  /\ isHovered' = FALSE
  /\ Effect(FALSE)
  /\ view' = RenderHovered(FALSE)

\* A lock button that only ever locks.
handleLockToggle_OnlyLocks == onUpdate([locked |-> TRUE])

handleLockToggle == onUpdate([locked |-> ~locked])

\* onClick of the lock button of the element controls
LockToggle ==
  /\ view.controls # <<>>
  /\ UNCHANGED <<props, mounted, state, listeners, down, view>>
  /\ selects' = 0
  /\ ev' = Event("locktoggle", "controls", 0, 0)
  /\ UNCHANGED overlay
  /\ updates' = handleLockToggle

----------------------------------------------------------------------------
\* The container: it owns the props, applies the requests it receives, selects
\* and deselects, mounts and unmounts.

Merge(payload, field, old) ==
  IF field \in DOMAIN payload THEN payload[field] ELSE old

ContainerApply ==
  /\ mounted
  /\ updates # <<>>
  /\ LET p == updates[1]
         nx == Merge(p, "x", x)
         ny == Merge(p, "y", y)
         nl == Merge(p, "locked", locked)
         nk == Merge(p, "kanbanData", kanbanData)
     IN  /\ nx \in Pos
         /\ ny \in Pos
         /\ x' = nx
         /\ y' = ny
         /\ locked' = nl
         /\ kanbanData' = nk
         /\ down' = [down EXCEPT !.moved = @ \/ nx # x \/ ny # y]
         /\ view' = CanvasElement(mounted, type, nx, ny, points, isSelected, nl, nk,
                                  isEditing, isHovered)
  /\ UNCHANGED <<type, points, isSelected, hasOnUpdate, mounted, state>>
  /\ updates' = <<>>
  /\ selects' = 0
  /\ ev' = Event("container", "apply", 0, 0)
  /\ UNCHANGED overlay
  /\ Effect(FALSE)

ContainerSelect(sel) ==
  /\ mounted
  /\ sel # isSelected
  /\ isSelected' = sel
  /\ UNCHANGED <<type, x, y, points, locked, kanbanData, hasOnUpdate>>
  /\ UNCHANGED <<mounted, state, down>>
  /\ updates' = <<>>
  /\ selects' = 0
  /\ ev' = Event("container", "select", 0, 0)
  /\ UNCHANGED overlay
  /\ Effect(FALSE)
  /\ view' = CanvasElement(mounted, type, x, y, points, sel, locked, kanbanData,
                           isEditing, isHovered)

\* The container removes the element: React runs the effect's cleanup and the
\* instance's state is out of reach from then on.
Unmount ==
  /\ mounted
  /\ mounted' = FALSE
  /\ UNCHANGED <<props, state, down>>
  /\ listeners' = UnmountCleanup(listeners)
  /\ updates' = <<>>
  /\ selects' = 0
  /\ ev' = Event("container", "unmount", 0, 0)
  /\ UNCHANGED overlay
  /\ view' = Unmounted

\* The container adds the element again: a new instance, with the initial
\* useState values.
Mount ==
  /\ ~mounted
  /\ mounted' = TRUE
  /\ UNCHANGED <<props, listeners>>
  /\ isDragging' = FALSE
  /\ isResizing' = FALSE
  /\ dragOffset' = InitialOffset
  /\ isEditing' = FALSE
  /\ isHovered' = FALSE
  /\ down' = NoDown
  /\ updates' = <<>>
  /\ selects' = 0
  /\ ev' = Event("container", "mount", 0, 0)
  /\ UNCHANGED overlay
  /\ view' = CanvasElement(TRUE, type, x, y, points, isSelected, locked, kanbanData,
                           FALSE, FALSE)

----------------------------------------------------------------------------
\* The interaction lifecycle of one element.

PenSamples ==
  { <<[x |-> 0, y |-> 0]>>,
    <<[x |-> 0, y |-> 0], [x |-> 10, y |-> 0], [x |-> 10, y |-> 10]>> }

BoardSample == << <<[cards |-> <<"c1", "c2">>], [cards |-> <<>>]>> >>

\* No collaborator is present and the canvas is at 100%.
NoOverlay ==
  /\ cursors = <<>>
  /\ zoom = 100
  /\ markers = <<>>

InitState ==
  /\ mounted = TRUE
  /\ isDragging = FALSE
  /\ isResizing = FALSE
  /\ dragOffset = InitialOffset
  /\ isEditing = FALSE
  /\ isHovered = FALSE
  /\ listeners = {}
  /\ updates = <<>>
  /\ selects = 0
  /\ ev = NoEvent
  /\ down = NoDown

Init ==
  /\ type \in ShapeKinds
  /\ x \in Pos
  /\ y \in Pos
  /\ points \in IF type = "pen" THEN PenSamples ELSE {<<>>}
  /\ kanbanData \in IF type = "kanban" THEN {<<>>, BoardSample} ELSE {<<>>}
  /\ locked \in BOOLEAN
  /\ isSelected = FALSE
  /\ hasOnUpdate \in BOOLEAN
  /\ InitState
  /\ NoOverlay
  /\ view = Rendered

Next ==
  \/ \E px \in Pointer, py \in Pointer :
       \E tgt \in IF ShapeShown THEN MouseDownTargets ELSE {} : MouseDown(px, py, tgt)
  \/ DoubleClick
  \/ Click
  \/ \E px \in Pointer, py \in Pointer : MouseMove(px, py)
  \/ MouseUp
  \/ Blur
  \/ \E key \in Keys : KeyDown(key)
  \/ MouseEnter
  \/ MouseLeave
  \/ LockToggle
  \/ ContainerApply
  \/ \E sel \in BOOLEAN : ContainerSelect(sel)
  \/ Unmount
  \/ Mount

Spec == Init /\ [][Next]_vars

----------------------------------------------------------------------------
\* A pen stroke whose point sequence the container grows and shrinks.

RECURSIVE Strokes(_)
Strokes(n) ==
  IF n = 0 THEN {<<>>}
  ELSE LET shorter == Strokes(n - 1)
       IN  shorter \cup {Append(s, p) : s \in {t \in shorter : Len(t) = n - 1}, p \in PointSet}

ContainerSetPoints(pts) ==
  /\ mounted
  /\ points' = pts
  /\ UNCHANGED <<type, x, y, locked, kanbanData, isSelected, hasOnUpdate>>
  /\ UNCHANGED <<mounted, state, down>>
  /\ updates' = <<>>
  /\ selects' = 0
  /\ ev' = Event("container", "points", 0, 0)
  /\ UNCHANGED overlay
  /\ Effect(FALSE)
  /\ view' = CanvasElement(mounted, type, x, y, pts, isSelected, locked, kanbanData,
                           isEditing, isHovered)

AppendPoint(p) ==
  /\ Len(points) < MaxPoints
  /\ ContainerSetPoints(Append(points, p))

DropPoint ==
  /\ points # <<>>
  /\ ContainerSetPoints(SubSeq(points, 1, Len(points) - 1))

InitPen ==
  /\ type = "pen"
  /\ x = 0
  /\ y = 0
  /\ points \in Strokes(MaxPoints)
  /\ kanbanData = <<>>
  /\ locked \in BOOLEAN
  /\ isSelected = FALSE
  /\ hasOnUpdate = TRUE
  /\ InitState
  /\ NoOverlay
  /\ view = Rendered

NextPen ==
  \/ \E p \in PointSet : AppendPoint(p)
  \/ DropPoint
  \/ MouseEnter
  \/ MouseLeave
  \/ \E sel \in BOOLEAN : ContainerSelect(sel)

SpecPen == InitPen /\ [][NextPen]_vars

----------------------------------------------------------------------------
\* A kanban element whose board value the embedded board edits.

Cards == UNION {[1..n -> CardIds] : n \in 0..MaxCards}
Columns == [cards : Cards]
Boards == UNION {[1..n -> Columns] : n \in 0..MaxColumns}

\* The board values one edit away: a card added to or taken from the end of a
\* column, an empty column added, the last column removed.
BoardEdits(b) ==
  {[b EXCEPT ![i].cards = Append(@, c)] :
      i \in {j \in 1..Len(b) : Len(b[j].cards) < MaxCards}, c \in CardIds}
    \cup {[b EXCEPT ![i].cards = SubSeq(@, 1, Len(@) - 1)] :
            i \in {j \in 1..Len(b) : b[j].cards # <<>>}}
    \cup (IF Len(b) < MaxColumns THEN {Append(b, [cards |-> <<>>])} ELSE {})
    \cup (IF b # <<>> THEN {SubSeq(b, 1, Len(b) - 1)} ELSE {})

handleKanbanUpdate(newKanbanData) == onUpdate([kanbanData |-> <<newKanbanData>>])

\* onUpdate of the embedded KanbanBoard
KanbanUpdate(newKanbanData) ==
  /\ ShapeShown
  /\ type = "kanban"
  /\ UNCHANGED <<props, mounted, state, listeners, down, view>>
  /\ selects' = 0
  /\ ev' = Event("kanban", "board", 0, 0)
  /\ UNCHANGED overlay
  /\ updates' = handleKanbanUpdate(newKanbanData)

InitKanban ==
  /\ type = "kanban"
  /\ x = 0
  /\ y = 0
  /\ points = <<>>
  /\ kanbanData \in {<<>>} \cup {<<b>> : b \in Boards}
  /\ locked \in BOOLEAN
  /\ isSelected \in BOOLEAN
  /\ hasOnUpdate = TRUE
  /\ InitState
  /\ NoOverlay
  /\ view = Rendered

NextKanban ==
  \/ \E b \in IF kanbanData = <<>> THEN {} ELSE BoardEdits(kanbanData[1]) : KanbanUpdate(b)
  \/ ContainerApply

SpecKanban == InitKanban /\ [][NextKanban]_vars

----------------------------------------------------------------------------
\* CollaborationCursors: one marker per entry of the cursor list.

cursorColors ==
  <<"#3B82F6", "#8B5CF6", "#10B981", "#F97316",
    "#EF4444", "#EC4899", "#14B8A6", "#F59E0B">>

\* The entries the cursor list is built from: two users, one of them seen at
\* two raw positions.
CursorSamples ==
  { [user |-> "ann", x |-> 3, y |-> 7],
    [user |-> "bob", x |-> 3, y |-> 7],
    [user |-> "bob", x |-> 10, y |-> 0] }
Zooms == {100, 150}

\* JavaScript numbers, kept exact as a fraction num / den.
Quot(a, b) == [num |-> a, den |-> b]
Times(n, q) == [num |-> n * q.num, den |-> q.den]

\* cursor.x * (zoom / 100)
Scale(c, z) == Times(c, Quot(z, 100))

\* The palette without the wrap-around: every index past the end takes the
\* last colour.
ColorOf_Clamped(index) ==
  cursorColors[IF index < Len(cursorColors) THEN index + 1 ELSE Len(cursorColors)]

\* cursorColors[index % cursorColors.length], index counted from 0
ColorOf(index) == cursorColors[(index % Len(cursorColors)) + 1]

\* The motion.div of one entry.
Marker(cursor, index, z) ==
  [key |-> cursor.user,
   left |-> Scale(cursor.x, z),
   top |-> Scale(cursor.y, z),
   color |-> ColorOf(index)]

\* cursors.map((cursor, index) => ...): the element list the component returns.
CollaborationCursors(cs, z) == [i \in 1..Len(cs) |-> Marker(cs[i], i - 1, z)]

RemoveAt(cs, i) == SubSeq(cs, 1, i - 1) \o SubSeq(cs, i + 1, Len(cs))

\* A collaborator's cursor is added at the end of the list.
CursorJoin(c) ==
  /\ Len(cursors) < MaxCursors
  /\ LET cs == Append(cursors, c)
     IN  /\ cursors' = cs
         /\ markers' = CollaborationCursors(cs, zoom)
  /\ UNCHANGED <<zoom, element>>

\* The entry at index i leaves the list; the later entries move up by one.
CursorLeave(i) ==
  /\ LET cs == RemoveAt(cursors, i)
     IN  /\ cursors' = cs
         /\ markers' = CollaborationCursors(cs, zoom)
  /\ UNCHANGED <<zoom, element>>

\* The entry at index i reports a new raw position.
CursorMove(i, c) ==
  /\ c.user = cursors[i].user
  /\ c # cursors[i]
  /\ LET cs == [cursors EXCEPT ![i] = c]
     IN  /\ cursors' = cs
         /\ markers' = CollaborationCursors(cs, zoom)
  /\ UNCHANGED <<zoom, element>>

\* The canvas zoom changes.
SetZoom(z) ==
  /\ z # zoom
  /\ zoom' = z
  /\ markers' = CollaborationCursors(cursors, z)
  /\ UNCHANGED <<cursors, element>>

InitCursors ==
  /\ type = "rectangle"
  /\ x = 0
  /\ y = 0
  /\ points = <<>>
  /\ kanbanData = <<>>
  /\ locked = FALSE
  /\ isSelected = FALSE
  /\ hasOnUpdate = TRUE
  /\ InitState
  /\ view = Rendered
  /\ cursors = <<>>
  /\ zoom \in Zooms
  /\ markers = CollaborationCursors(cursors, zoom)

NextCursors ==
  \/ \E c \in CursorSamples : CursorJoin(c)
  \/ \E i \in 1..Len(cursors) : CursorLeave(i)
  \/ \E i \in 1..Len(cursors), c \in CursorSamples : CursorMove(i, c)
  \/ \E z \in Zooms : SetZoom(z)

SpecCursors == InitCursors /\ [][NextCursors]_vars

----------------------------------------------------------------------------
\* Properties.

Idle == ~isDragging /\ ~isResizing /\ ~isEditing

\* The position the drag formula gives for the last pointer-move:
\* (px2 - (px - x0), py2 - (py - y0)).
DragFormula == [x |-> ev.px - down.dx, y |-> ev.py - down.dy]

\* C1: while locked is true no step takes the element from Idle into Dragging,
\* Resizing or Editing: not a pointer-down, a click or a double-click, and not
\* the container selecting it.
C1_LockedSuppressesEntry == [][(locked /\ Idle) => Idle']_vars

\* A locked, selected, idle element that has just received a pointer-down.
C1_Witness == locked /\ Idle /\ isSelected /\ mounted /\ ev.name = "mousedown"

\* C2: every pointer-move of a drag requests the position the drag formula
\* gives from the offset of the pointer-down that started the drag, whatever
\* the element's x and y have become since.
C2_MoveUsesCapturedOffset ==
  (ev.name = "mousemove" /\ mounted /\ isDragging /\ hasOnUpdate)
    => updates = <<DragFormula>>

\* A later pointer-move of a drag, after the container moved the element away
\* from where the pointer-down found it, asking for yet another position.
C2_Witness ==
  /\ ev.name = "mousemove" /\ mounted /\ isDragging /\ hasOnUpdate
  /\ down.moved
  /\ updates # <<>>
  /\ updates[1].x # x /\ updates[1].y # y

\* C3: the document listeners are attached if and only if the element is
\* mounted and Dragging or Resizing is active, and never twice.
C3_ListenersIffActive ==
  /\ (listeners # {}) <=> (mounted /\ (isDragging \/ isResizing))
  /\ Cardinality(listeners) <= 1

\* An element unmounted in the middle of a drag, its listeners detached.
C3_Witness == ~mounted /\ isDragging /\ listeners = {}

\* C4: a lock acquired in the middle of a drag does not cancel it: pointer-moves
\* of the locked element still request the position of the drag formula, and
\* only a pointer-up (or a new mount) takes the element out of Dragging.
C4_LockKeepsDrag ==
  /\ []((ev.name = "mousemove" /\ mounted /\ isDragging /\ locked /\ hasOnUpdate)
          => updates = <<DragFormula>>)
  /\ [][(isDragging /\ ev'.name # "mouseup" /\ ev'.target # "mount")
          => isDragging']_vars

\* A pointer-move of a drag on an element that was locked during the drag.
C4_Witness ==
  /\ ev.name = "mousemove" /\ mounted /\ isDragging /\ locked
  /\ updates # <<>>

\* C5: Editing is entered only by a double-click on a text or sticky element
\* that is not locked, and left exactly at a blur or an Escape key.
C5_EditingOnlyByDoubleClick ==
  [][/\ (~isEditing /\ isEditing')
          => (ev'.name = "dblclick" /\ type \in EditKinds /\ ~locked)
     /\ (isEditing /\ ~isEditing' /\ ev'.target # "mount")
          => (ev'.name = "blur" \/ (ev'.name = "keydown" /\ ev'.target = "Escape"))
     /\ (isEditing /\ (ev'.name = "blur"
                         \/ (ev'.name = "keydown" /\ ev'.target = "Escape")))
          => ~isEditing']_vars

\* C6: a pointer-down on a resize handle of a non-locked element makes the
\* resizing flag true.
C6_HandlePressResizes ==
  (ev.name = "mousedown" /\ ev.target = "handle") => isResizing

\* C7: the lock button is there whenever the element is selected or hovered
\* (kanban apart), whatever the interaction state; pressing it requests exactly
\* onUpdate(id, {locked: !locked}) and leaves the dragging, resizing and
\* editing flags as they were.
C7_LockToggleAnyState ==
  /\ []((view.controls # <<>>)
          <=> (mounted /\ (isSelected \/ isHovered) /\ type # "kanban"))
  /\ []((ev.name = "locktoggle" /\ hasOnUpdate) => updates = <<[locked |-> ~locked]>>)
  /\ [][(ev'.name = "locktoggle")
          => UNCHANGED <<isDragging, isResizing, isEditing, dragOffset>>]_vars

\* The lock button pressed in the middle of a drag of an unlocked element.
C7_Witness ==
  /\ ev.name = "locktoggle" /\ isDragging /\ ~locked
  /\ updates = <<[locked |-> TRUE]>>

\* The number of (column, card) places of a board value.
CardPlaces(columns) ==
  Cardinality(UNION {{<<i, j>> : j \in 1..Len(columns[i].cards)} : i \in 1..Len(columns)})

KanbanShown == type = "kanban" /\ mounted /\ kanbanData # <<>>

\* C8 as stated: every kanban element with a board value shows the number of
\* its cards in the header.
C8_BadgeOnEveryBoard ==
  KanbanShown => view.shape[1].badge = <<CardPlaces(kanbanData[1])>>

\* C8: a kanban element with a board value that is not locked shows the number
\* of cards of its current board value in the header; a locked one shows no
\* count.
C8_BadgeWhenUnlocked ==
  KanbanShown =>
    view.shape[1].badge =
      IF locked THEN <<>> ELSE <<CardPlaces(kanbanData[1])>>

\* An unlocked board of several columns with cards, right after the container
\* applied an edit of the board.
C8_Witness ==
  /\ KanbanShown /\ ~locked
  /\ ev.target = "apply"
  /\ Len(kanbanData[1]) >= 2
  /\ \A i \in 1..Len(kanbanData[1]) : kanbanData[1][i].cards # <<>>
  /\ view.shape[1].badge = <<MaxColumns * MaxCards>>

ExampleStroke == <<[x |-> 0, y |-> 0], [x |-> 10, y |-> 0], [x |-> 10, y |-> 10]>>

Indices == 1..Len(points)

\* C9: a pen element of at least 2 points is drawn in the box of the least and
\* greatest x and y of its points, its path visits the points in order, each
\* offset by the box's corner, so every path coordinate lies in the box; for
\* the example stroke the box is {0, 0, 10, 10} and the path starts at (0, 0).
C9_PenBoxAndPath ==
  (type = "pen" /\ mounted /\ Len(points) >= 2) =>
    /\ view.shape # NoShape
    /\ LET sh == view.shape[1]
       IN  /\ \A i \in Indices : sh.left <= points[i].x /\ sh.top <= points[i].y
           /\ \E i \in Indices : sh.left = points[i].x
           /\ \E i \in Indices : sh.top = points[i].y
           /\ \A i \in Indices : points[i].x <= sh.left + sh.width
           /\ \A i \in Indices : points[i].y <= sh.top + sh.height
           /\ \E i \in Indices : points[i].x = sh.left + sh.width
           /\ \E i \in Indices : points[i].y = sh.top + sh.height
           /\ Len(sh.path) = Len(points)
           /\ \A i \in Indices :
                /\ sh.path[i].x = points[i].x - sh.left
                /\ sh.path[i].y = points[i].y - sh.top
                /\ sh.path[i].x \in 0..sh.width
                /\ sh.path[i].y \in 0..sh.height
           /\ points = ExampleStroke =>
                /\ <<sh.left, sh.top, sh.left + sh.width, sh.top + sh.height>>
                     = <<0, 0, 10, 10>>
                /\ sh.path[1] = [x |-> 0, y |-> 0]

\* The example stroke drawn, its last point just added.
C9_Witness ==
  /\ type = "pen" /\ mounted /\ points = ExampleStroke
  /\ ev.target = "points"
  /\ view.shape # NoShape

\* C10: a pen element of fewer than 2 points renders nothing, neither a shape
\* nor the controls.
C10_DegeneratePenRendersNothing ==
  (type = "pen" /\ mounted /\ Len(points) < 2)
    => (view.shape = NoShape /\ view.controls = <<>>)

\* The index of a marker as the code counts it, from 0.
IndexOf(i) == i - 1

\* C11: every entry of the cursor list has exactly one marker, at the same
\* place of the output; the marker is positioned at (x*z/100, y*z/100) and its
\* colour is the palette's entry at the index modulo 8, so two markers have
\* the same colour exactly when their indices agree modulo 8, whoever the
\* users are.
C11_OneMarkerPerEntry ==
  /\ Len(markers) = Len(cursors)
  /\ \A i \in 1..Len(cursors) :
       /\ markers[i].key = cursors[i].user
       /\ markers[i].left.num * 100 = cursors[i].x * zoom * markers[i].left.den
       /\ markers[i].top.num * 100 = cursors[i].y * zoom * markers[i].top.den
       /\ markers[i].color = cursorColors[(IndexOf(i) % 8) + 1]
  /\ \A i, j \in 1..Len(cursors) :
       (markers[i].color = markers[j].color) <=> (IndexOf(i) % 8 = IndexOf(j) % 8)

\* Nine cursors at 150%: the ninth wraps to the first colour although another
\* user holds it, and its x of 3 is drawn at 4.5.
C11_Witness ==
  /\ Len(cursors) = Len(cursorColors) + 1
  /\ zoom = 150
  /\ cursors[1].user # cursors[9].user
  /\ cursors[2].user = cursors[9].user
  /\ cursors[9].x = 3
  /\ markers[9].left.num * 2 = 9 * markers[9].left.den
  /\ markers[9].color = markers[1].color
  /\ markers[9].color # markers[2].color

\* C12: at most one of Dragging, Resizing and Editing is active in every
\* reachable state, and Dragging is entered only from Idle.
C12_AtMostOneActive ==
  /\ [](~(isDragging /\ isEditing) /\ ~(isDragging /\ isResizing)
          /\ ~(isResizing /\ isEditing))
  /\ [][(~isDragging /\ isDragging') => Idle]_vars

\* C13: every shape that renders is drawn with its top-left at its (x, y)
\* props; stated for the render that follows the container applying the
\* position a drag requested: the element is drawn at that position, whatever
\* its kind.
C13_DrawnAtProps ==
  (mounted /\ view.shape # NoShape /\ ev.target = "apply" /\ down.moved)
    => (view.shape[1].left = x /\ view.shape[1].top = y)

====
